---- MODULE Spec2Model ----
(***************************************************************************)
(* WorkflowBenchmark (wfcommons/wfbench/bench.py): the benchmark assembler *)
(* create_benchmark, which sizes and names the files of a task graph, and  *)
(* the local executor run, which spawns one process per task as soon as    *)
(* the task's input files exist.  Task names are produced as in            *)
(* WorkflowRecipe._generate_job_name (workflowhub abstract_recipe.py).     *)
(*                                                                         *)
(* Tasks are numbered 1..num in the iteration order of workflow.tasks; a   *)
(* task's number is also the value of the id counter that named it.        *)
(* File names and arguments are strings, built by concatenation as the     *)
(* f-strings of the source build them.                                     *)
(***************************************************************************)
EXTENDS Integers, Sequences, FiniteSets, TLC

VARIABLES
    num,             \* number of tasks of self.workflow
    name,            \* task.name, per task
    category,        \* task.category, per task
    tasks_parents,   \* self.workflow.tasks_parents
    tasks_children,  \* self.workflow.tasks_children
    files,           \* task.files, per task: a list of File records
    args,            \* task.args, per task: a list of strings
    mode,            \* which branch of create_benchmark ran: "none", "int", "dict"
    footprint,       \* the integer data argument (MB) of the last int-mode call
    disk,            \* the directory of the data files: file name -> size
    pc,              \* position of the caller / of run
    has_executed,    \* run: names (numbers) of the tasks already launched
    procs,           \* run: the list of spawned processes, by task
    idx,             \* run: position of the for-loop over wf["workflow"]["tasks"]
    waited,          \* run: number of procs proc.wait() has returned for
    pstate,          \* per task: state of its spawned OS process
    written,         \* per task: output files its process has written so far
    checked,         \* run: tasks the current scan has found not ready
    scan_spawned,    \* run: tasks spawned by the current scan
    call,            \* the arguments of the latest create_benchmark call
    lock_files,      \* the files in lock_files_folder
    wrote,           \* files the latest create_benchmark call opened for writing
    repeated,        \* the latest call completed and repeated the completed call before it
    scratch,         \* run: number of wfbench_execution/<uuid> directories
    program,         \* run: per task, the command line given to Popen
    jobs_files,      \* WorkflowRecipe.jobs_files: per generated job, its File list
    job_calls,       \* per generated job, the recipes _generate_job was given
    uuids            \* number of uuid4 values drawn by _generate_file

vars == <<num, name, category, tasks_parents, tasks_children, files, args, mode,
          footprint, disk, pc, has_executed, procs, idx, waited, pstate,
          written, checked, scan_spawned, call, lock_files, wrote, repeated,
          scratch, program, jobs_files, job_calls, uuids>>

wfvars == <<num, name, category, tasks_parents, tasks_children>>
runvars == <<has_executed, procs, idx, waited, pstate, written, checked, scan_spawned,
            scratch, program>>
callvars == <<call, lock_files, wrote, repeated>>
spawnvars == <<scratch, program>>
jobvars == <<jobs_files, job_calls, uuids>>
benchvars == <<wfvars, runvars, callvars, files, args, mode, footprint, disk, pc>>

(***************************************************************************)
(* Bounds of the model.                                                    *)
(***************************************************************************)
MaxTasks == 3
MaxFootprint == 2

(***************************************************************************)
(* Program constants.                                                      *)
(***************************************************************************)
IdWidth == 8
MBtoB == 1000000
FirstJobId == 1

\* Task categories (the recipe's job prefixes); some contain the separator
\* that the file-name formats use.
Prefixes == {"a", "a_a"}

\* Byte sizes a per-category data mapping may hold.
DataSizes == {50, 100}

Tasks == 1..num

(***************************************************************************)
(* String formatting.                                                      *)
(***************************************************************************)
DigitChars == <<"0", "1", "2", "3", "4", "5", "6", "7", "8", "9">>

RECURSIVE Decimal(_)
\* str(n) / "{:d}".format(n) for n >= 0
Decimal(n) == IF n < 10 THEN DigitChars[n + 1]
              ELSE Decimal(n \div 10) \o DigitChars[(n % 10) + 1]

RECURSIVE ZeroPad(_, _)
\* the 0<w> part of a format specification: pad on the left to width w
ZeroPad(s, w) == IF Len(s) >= w THEN s ELSE ZeroPad("0" \o s, w)

TaskNameNoId(prefix, id) == prefix

\* "{}_{:08d}".format(prefix, self.job_id_counter)
TaskName(prefix, id) == prefix \o "_" \o ZeroPad(Decimal(id), IdWidth)

\* the names of a workflow's tasks: the counter starts at FirstJobId and is
\* incremented once per generated name
GeneratedNames(n, cat) == [t \in 1..n |-> TaskName(cat[t], FirstJobId + t - 1)]

RECURSIVE SeqOfSet(_)
\* the members of a set of tasks in task order
SeqOfSet(S) == IF S = {} THEN <<>>
               ELSE LET m == CHOOSE x \in S : \A y \in S : x <= y
                    IN <<m>> \o SeqOfSet(S \ {m})

RECURSIVE JoinStr(_, _)
\* sep.join(parts)
JoinStr(parts, sep) ==
    IF parts = <<>> THEN ""
    ELSE IF Len(parts) = 1 THEN parts[1]
    ELSE parts[1] \o sep \o JoinStr(Tail(parts), sep)

\* repr of a dict of file name -> size, as f"{outputs_file_size}" prints it
DictRepr(pairs) ==
    "{" \o JoinStr([k \in 1..Len(pairs) |->
                      "'" \o pairs[k][1] \o "': " \o Decimal(pairs[k][2])], ", ")
        \o "}"

File(n, s, l) == [name |-> n, size |-> s, link |-> l]

(***************************************************************************)
(* The workflow graph.                                                     *)
(***************************************************************************)
RECURSIVE AncestorsWithin(_, _)
\* the tasks reachable from t along at most k parent links
AncestorsWithin(t, k) ==
    IF k = 0 THEN {}
    ELSE tasks_parents[t] \cup
         UNION {AncestorsWithin(p, k - 1) : p \in tasks_parents[t]}

Ancestors(t) == AncestorsWithin(t, num)

Roots == {t \in Tasks : tasks_parents[t] = {}}

\* data is one of [kind |-> "none"], [kind |-> "int", value |-> megabytes],
\* [kind |-> "dict", value |-> a function from some categories to byte sizes]
DataNone == [kind |-> "none"]
DataInt(d) == [kind |-> "int", value |-> d]
DataDict(f) == [kind |-> "dict", value |-> f]

DataDicts == UNION {[S -> DataSizes] : S \in SUBSET Prefixes}

DataArgs == {DataNone} \cup {DataInt(d) : d \in 0..MaxFootprint}
                       \cup {DataDict(f) : f \in DataDicts}

(***************************************************************************)
(* create_benchmark and its helpers.                                       *)
(***************************************************************************)
\* A dict keyed by task (outputs, input_files) is a function whose domain is
\* the set of its keys; each inner dict is the list of its <<key, value>>
\* items in insertion order.
EmptyDict == [t \in {} |-> <<>>]

\* _output_files: the categories whose size data[...] is looked up for task t
OutputFilesLookups(t) ==
    IF tasks_children[t] = {} THEN {category[t]}
    ELSE {category[c] : c \in tasks_children[t]}

OutputFilesByProducer(data) ==
    [t \in Tasks |->
        LET ch == SeqOfSet(tasks_children[t])
        IN IF tasks_children[t] = {} THEN << <<t, data[category[t]]>> >>
           ELSE [k \in 1..Len(ch) |->
                   <<ch[k], IF category[t] \in DOMAIN data THEN data[category[t]]
                            ELSE data[category[ch[k]]]>>]]

\* _output_files
OutputFiles(data) ==
    [t \in Tasks |->
        LET ch == SeqOfSet(tasks_children[t])
        IN IF tasks_children[t] = {} THEN << <<t, data[category[t]]>> >>
           ELSE [k \in 1..Len(ch) |-> <<ch[k], data[category[ch[k]]]>>]]

\* _calculate_input_files
tasks_need_input == Cardinality({t \in Tasks : tasks_parents[t] = {}})
tasks_dont_need_input == Cardinality({t \in Tasks : tasks_parents[t] # {}})
total_num_files_one_per_task == tasks_need_input + tasks_dont_need_input
total_num_files == tasks_need_input * 2 + tasks_dont_need_input

Truncate(n, d) == n \div d

\* round(n / d) of Python 3 for n >= 0, d > 0: to the nearest integer, a tie
\* to the even one
PyRound(n, d) ==
    LET q == n \div d
        r == n % d
    IN IF 2 * r < d THEN q
       ELSE IF 2 * r > d THEN q + 1
       ELSE IF q % 2 = 0 THEN q ELSE q + 1

\* file_size = round(data * 1000000 / num_total_files)
FileSize(d) == PyRound(d * MBtoB, total_num_files)

\* the local variable outputs after the loop of the integer branch: the
\* loop resets it for every task, so the last task's entry is what is left
IntOutputs(file_size) ==
    IF tasks_children[num] = {} THEN EmptyDict
    ELSE [t \in {num} |->
            LET ch == SeqOfSet(tasks_children[num])
            IN [k \in 1..Len(ch) |-> <<ch[k], file_size>>]]

\* f"{task.name}_{child}_output.txt"
EdgeOutputName(parent, child) ==
    name[parent] \o "_" \o name[child] \o "_output.txt"

\* f"{task.name}_output.txt"
OutputName(t) == name[t] \o "_output.txt"

\* f"{task.name}_input.txt"
InputName(t) == name[t] \o "_input.txt"

\* _add_output_files: the File records appended to task t
AddOutputFiles(t, output_files, isDict) ==
    IF isDict
    THEN [k \in 1..Len(output_files[t]) |->
            File(EdgeOutputName(t, output_files[t][k][1]),
                 output_files[t][k][2], "output")]
    ELSE << File(OutputName(t), output_files, "output") >>

\* _add_input_files, first loop: input_files[child][parent] = file_size
InputFilesOf(output_files) ==
    LET keys == UNION {{output_files[p][k][1] : k \in 1..Len(output_files[p])}
                          : p \in DOMAIN output_files}
    IN [c \in keys |->
          LET ps == SeqOfSet({p \in DOMAIN output_files :
                        \E k \in 1..Len(output_files[p]) :
                            output_files[p][k][1] = c})
          IN [j \in 1..Len(ps) |->
                LET k == CHOOSE k \in 1..Len(output_files[ps[j]]) :
                              output_files[ps[j]][k][1] = c
                IN <<ps[j], output_files[ps[j]][k][2]>>]]

\* _add_input_files, second loop: the File records appended to task t
AddInputFiles(t, output_files, data) ==
    IF tasks_parents[t] = {}
    THEN << File(InputName(t),
                 IF data.kind = "dict" THEN data.value[category[t]]
                 ELSE data.value,
                 "input") >>
    ELSE IF data.kind = "dict"
    THEN LET ins == InputFilesOf(output_files)[t]
         IN [j \in 1..Len(ins) |->
               File(EdgeOutputName(ins[j][1], t), ins[j][2], "input")]
    ELSE LET ps == SeqOfSet(tasks_parents[t])
         IN [j \in 1..Len(ps) |-> File(OutputName(ps[j]), data.value, "input")]

FileNames(fs) == [k \in 1..Len(fs) |-> fs[k].name]

\* the "--out {...}" argument of task t
OutArg(t, output_files, isDict) ==
    IF isDict
    THEN "--out " \o DictRepr([k \in 1..Len(output_files[t]) |->
              <<EdgeOutputName(t, output_files[t][k][1]), output_files[t][k][2]>>])
    ELSE "--out " \o DictRepr(<< <<OutputName(t), output_files>> >>)

AppendToFiles(t) == files[t]

\* task.files = []
ResetFiles(t) == <<>>

\* task.args = [task.name]
BaseArgs(t) == <<name[t]>>

\* json_path
JsonName == "workflow-benchmark-" \o Decimal(num) \o ".json"

AllRootInputs(d) == {InputName(t) : t \in Roots}

\* _generate_data_for_root_nodes: the files it opens for writing, those for
\* which file.is_file() is false
MissingRootInputs(d) == {InputName(t) : t \in Roots} \ DOMAIN d

\* _generate_data_for_root_nodes: an existing file is left as it is
GenerateDataForRootNodes(d, sizeOf) ==
    LET new == MissingRootInputs(d)
    IN [f \in DOMAIN d \cup new |->
          IF f \in new THEN sizeOf[CHOOSE t \in Roots : InputName(t) = f]
          ELSE d[f]]

\* workflow.write_json(json_path)
WriteJson(d) == [f \in DOMAIN d \cup {JsonName} |-> IF f = JsonName THEN 0 ELSE d[f]]

\* the first task at which _add_input_files raises KeyError (a root whose
\* category data lacks), or num + 1 when it raises for none
AddInputFilesStop(data) ==
    LET bad == {t \in Roots : data.kind = "dict" /\ category[t] \notin DOMAIN data.value}
    IN IF bad = {} THEN num + 1 ELSE CHOOSE t \in bad : \A u \in bad : t <= u

(***************************************************************************)
(* The parameters of create_benchmark other than data.  percent_cpu,       *)
(* cpu_work and gpu_work are a scalar or a per-category mapping; a float   *)
(* is held in tenths.  lock_files_folder is None or a path.                *)
(***************************************************************************)
Float(n) == [kind |-> "float", value |-> n]
Folder(p) == [kind |-> "path", value |-> p]

\* percent_cpu = 0.6
DefaultPercentCpu == 6

Call(percent_cpu, cpu_work, gpu_work, data, lock_files_folder, regenerate) ==
    [percent_cpu |-> percent_cpu, cpu_work |-> cpu_work, gpu_work |-> gpu_work,
     data |-> data, lock_files_folder |-> lock_files_folder,
     regenerate |-> regenerate]

\* create_benchmark(save_dir, data=data): every other parameter at its default
DefaultCall(data) ==
    Call(Float(DefaultPercentCpu), DataNone, DataNone, data, DataNone, TRUE)

\* the truth value of a parameter: None, 0 and {} are false
Truthy(v) == CASE v.kind = "none" -> FALSE
               [] v.kind = "int" -> v.value # 0
               [] v.kind = "float" -> v.value # 0
               [] v.kind = "dict" -> DOMAIN v.value # {}
               [] v.kind = "path" -> TRUE

\* v[task.category] if isinstance(v, dict) else v
LookupFails(v, t) == v.kind = "dict" /\ category[t] \notin DOMAIN v.value
Lookup(v, t) == IF v.kind = "dict" THEN v.value[category[t]] ELSE v.value

\* str of a float that has one decimal digit, given in tenths
FormatFloat(n) == Decimal(n \div 10) \o "." \o Decimal(n % 10)

LockName == "cores.txt.lock"
CoresName == "cores.txt"

\* what creating the lock files (lines 117-124) can come to: every step
\* succeeds, mkdir raises, lock.open raises, or cores.open raises
LockOutcomes == {"ok", "mkdir_fails", "lock_open_fails", "cores_open_fails"}

\* the files of lock_files_folder after lines 116-127
CreateLockFiles(c, env) ==
    IF c.lock_files_folder.kind = "none" THEN lock_files
    ELSE CASE env = "ok" -> lock_files \cup {LockName, CoresName}
           [] env = "cores_open_fails" -> lock_files \cup {LockName}
           [] OTHER -> lock_files

\* whether the local names lock and cores are bound after lines 116-127:
\* they are assigned after mkdir and before the files are opened
LockBound(c, env) == c.lock_files_folder.kind # "none" /\ env # "mkdir_fails"

\* lines 131-151: what building the params of task t raises, if anything
ParamsError(t, c, env) ==
    IF Truthy(c.cpu_work)
          /\ (LookupFails(c.percent_cpu, t) \/ LookupFails(c.cpu_work, t))
    THEN "config_error"
    ELSE IF Truthy(c.cpu_work) /\ c.lock_files_folder.kind # "none"
               /\ ~LockBound(c, env)
    THEN "unbound_error"
    ELSE IF Truthy(c.gpu_work) /\ LookupFails(c.gpu_work, t)
    THEN "config_error"
    ELSE "none"

\* lines 131-151: params of task t
Params(t, c) ==
    (IF Truthy(c.cpu_work)
     THEN <<"--percent-cpu " \o FormatFloat(Lookup(c.percent_cpu, t)),
            "--cpu-work " \o Decimal(Lookup(c.cpu_work, t))>>
          \o (IF c.lock_files_folder.kind # "none"
              THEN <<"--path-lock " \o c.lock_files_folder.value \o "/" \o LockName,
                     "--path-cores " \o c.lock_files_folder.value \o "/" \o CoresName>>
              ELSE <<>>)
     ELSE <<>>)
    \o (IF Truthy(c.gpu_work)
        THEN <<"--gpu-work " \o Decimal(Lookup(c.gpu_work, t))>>
        ELSE <<>>)

\* the first task at which the loop of lines 130-157 raises, or num + 1
ParamsStop(c, env) ==
    LET bad == {t \in Tasks : ParamsError(t, c, env) # "none"}
    IN IF bad = {} THEN num + 1 ELSE CHOOSE t \in bad : \A u \in bad : t <= u

\* how the call ends: "created" when it returns json_path, else the error
Outcome(c, env) ==
    IF ParamsStop(c, env) <= num THEN ParamsError(ParamsStop(c, env), c, env)
    ELSE IF c.data.kind # "dict" THEN "created"
    ELSE IF \E t \in Tasks : ~(OutputFilesLookups(t) \subseteq DOMAIN c.data.value)
    THEN "config_error"
    ELSE IF AddInputFilesStop(c.data) <= num THEN "config_error"
    ELSE "created"

(***************************************************************************)
(* create_benchmark from line 112 on, with the arguments c, on the         *)
(* workflow of the instance; env is what creating the lock files comes to. *)
(***************************************************************************)
create_benchmark(c, env) ==
    LET data == c.data
        pstop == ParamsStop(c, env)
        base(t) == BaseArgs(t) \o Params(t, c)
    IN
    /\ call' = c
    /\ lock_files' = CreateLockFiles(c, env)
    /\ pc' = Outcome(c, env)
    /\ repeated' = (pc = "created" /\ c = call /\ Outcome(c, env) = "created")
    /\ UNCHANGED <<wfvars, runvars, jobvars>>
    /\ IF pstop <= num
       THEN \* an error in the loop of lines 130-157
            /\ files' = [t \in Tasks |-> IF t < pstop THEN ResetFiles(t) ELSE files[t]]
            /\ args' = [t \in Tasks |-> IF t < pstop THEN base(t) ELSE args[t]]
            /\ disk' = disk
            /\ wrote' = {}
            /\ mode' = "none"
            /\ footprint' = 0
       ELSE
         CASE data.kind = "none" ->
              /\ files' = [t \in Tasks |-> ResetFiles(t)]
              /\ args' = [t \in Tasks |-> base(t)]
              /\ disk' = WriteJson(disk)
              /\ wrote' = {JsonName}
              /\ mode' = "none"
              /\ footprint' = 0
         [] data.kind = "int" ->
              LET file_size == FileSize(data.value)
                  outputs == IntOutputs(file_size)
                  ins(t) == AddInputFiles(t, outputs, DataInt(file_size))
              IN /\ files' = [t \in Tasks |->
                                ResetFiles(t) \o AddOutputFiles(t, file_size, FALSE)
                                              \o ins(t)]
                 /\ args' = [t \in Tasks |->
                                base(t) \o <<OutArg(t, file_size, FALSE)>>
                                        \o FileNames(ins(t))]
                 /\ disk' = WriteJson(GenerateDataForRootNodes(
                                         disk, [t \in Roots |-> file_size]))
                 /\ wrote' = MissingRootInputs(disk) \cup {JsonName}
                 /\ mode' = "int"
                 /\ footprint' = data.value
         [] data.kind = "dict" ->
              /\ mode' = "dict"
              /\ footprint' = 0
              /\ IF \E t \in Tasks : ~(OutputFilesLookups(t) \subseteq DOMAIN data.value)
                 THEN \* KeyError in _output_files
                      /\ files' = [t \in Tasks |-> ResetFiles(t)]
                      /\ args' = [t \in Tasks |-> base(t)]
                      /\ disk' = disk
                      /\ wrote' = {}
                 ELSE LET outputs == OutputFiles(data.value)
                          stop == AddInputFilesStop(data)
                          ins(t) == IF t < stop THEN AddInputFiles(t, outputs, data)
                                    ELSE <<>>
                      IN /\ files' = [t \in Tasks |->
                                        ResetFiles(t) \o AddOutputFiles(t, outputs, TRUE)
                                                      \o ins(t)]
                         /\ args' = [t \in Tasks |->
                                        base(t) \o <<OutArg(t, outputs, TRUE)>>
                                                \o FileNames(ins(t))]
                         /\ IF stop <= num
                            THEN \* KeyError in _add_input_files
                                 /\ disk' = disk
                                 /\ wrote' = {}
                            ELSE /\ disk' = WriteJson(GenerateDataForRootNodes(
                                        disk, [t \in Roots |-> data.value[category[t]]]))
                                 /\ wrote' = MissingRootInputs(disk) \cup {JsonName}

(***************************************************************************)
(* create_benchmark(save_dir, data=data), on a generated workflow.         *)
(***************************************************************************)
CreateBenchmark(data) ==
    /\ pc = "idle"
    /\ create_benchmark(DefaultCall(data), "ok")

Create == \E data \in DataArgs : CreateBenchmark(data)

(***************************************************************************)
(* WorkflowRecipe._generate_job (workflowhub abstract_recipe.py): the file *)
(* list of a synthetic job.  A job recipe is the lists of the extensions   *)
(* of its 'input' and 'output' entries, in dict order; files_recipe is     *)
(* None or gives, for one link and one extension, a number of files.       *)
(***************************************************************************)
MaxNumFiles == 2

\* WorkflowRecipe.__init__: self.jobs_files = {}
NewRecipe ==
    /\ jobs_files = <<>>
    /\ job_calls = <<>>
    /\ uuids = 0

\* the keys of recipe entries: extensions with one dot and with two, and
\* the name of a file that has no dot
JobExtensions == <<".txt", ".tar.gz", "dat">>

\* the sub-list of JobExtensions with the members of S
ExtensionsIn(S) ==
    LET ks == SeqOfSet({k \in 1..Len(JobExtensions) : JobExtensions[k] \in S})
    IN [j \in 1..Len(ks) |-> JobExtensions[ks[j]]]

AllExtensions == {JobExtensions[k] : k \in 1..Len(JobExtensions)}

\* '.' in name
HasDot(s) == \E i \in 1..Len(s) : SubSeq(s, i, i) = "."

\* os.path.splitext(name)[1]: from the last dot on, unless only dots come
\* before it
SplitExt(s) ==
    IF ~HasDot(s) THEN ""
    ELSE LET i == CHOOSE i \in 1..Len(s) :
                     /\ SubSeq(s, i, i) = "."
                     /\ \A j \in (i + 1)..Len(s) : SubSeq(s, j, j) # "."
         IN IF \E j \in 1..(i - 1) : SubSeq(s, j, j) # "."
            THEN SubSeq(s, i, Len(s)) ELSE ""

\* path.splitext(f.name)[1] if '.' in f.name else f.name
Extension(s) == IF HasDot(s) THEN SplitExt(s) ELSE s

\* extension_list of _generate_files
ExtensionList(manifest, link) ==
    LET ks == SeqOfSet({k \in 1..Len(manifest) : manifest[k].link = link})
    IN [j \in 1..Len(ks) |-> Extension(manifest[ks[j]].name)]

UuidWidth == 3

\* str(uuid.uuid4()), the k-th value drawn: a token of a fixed width that
\* has no dot
Uuid(k) == "u" \o ZeroPad(Decimal(k), UuidWidth - 1)

\* the size _generate_file samples for an extension: the recipe's min and
\* max for the extension are equal
SampleSize(extension) == Len(extension) * 10

\* files_recipe: None, or {link: {extension: n}}
FilesRecipeNone == [kind |-> "none"]
FilesRecipes ==
    {FilesRecipeNone} \cup
    {[kind |-> "dict", link |-> l, extension |-> ".txt", n |-> n] :
        l \in {"input", "output"}, n \in 0..MaxNumFiles}

\* num_files of _generate_files
NumFiles(extension, link, fr) ==
    IF fr.kind = "dict" /\ fr.link = link /\ fr.extension = extension
    THEN fr.n ELSE 1

RECURSIVE GenerateFiles(_, _, _, _, _)
\* _generate_files: the files appended for the extensions exts of the
\* recipe, the next uuid being the k-th
GenerateFiles(exts, listed, link, fr, k) ==
    IF exts = <<>> THEN <<>>
    ELSE LET extension == Head(exts)
             n == IF \E i \in 1..Len(listed) : listed[i] = extension
                  THEN 0 ELSE NumFiles(extension, link, fr)
         IN [i \in 1..n |-> File(Uuid(k + i - 1) \o extension,
                                  SampleSize(extension), link)]
            \o GenerateFiles(Tail(exts), listed, link, fr, k + n)

\* the input files of the job: the loop of lines 108-112
LinkedInputs(input_files) ==
    LET ks == SeqOfSet({k \in 1..Len(input_files) : input_files[k].link = "output"})
    IN [j \in 1..Len(ks) |->
          File(input_files[ks[j]].name, input_files[ks[j]].size, "input")]

\* _generate_job(job_name, job_id, input_files, files_recipe), job_recipe
\* being self._workflow_recipe()[job_name]
generate_job(input_files, job_recipe, fr) ==
    LET linked == LinkedInputs(input_files)
        ins == GenerateFiles(job_recipe.input, ExtensionList(linked, "input"),
                             "input", fr, uuids + 1)
        withIns == linked \o ins
        outs == GenerateFiles(job_recipe.output, ExtensionList(withIns, "output"),
                              "output", fr, uuids + Len(ins) + 1)
    IN /\ jobs_files' = Append(jobs_files, withIns \o outs)
       /\ job_calls' = Append(job_calls, [recipe |-> job_recipe, files_recipe |-> fr])
       /\ uuids' = uuids + Len(ins) + Len(outs)
       /\ UNCHANGED benchvars

JobRecipes(inputs) ==
    {[input |-> ExtensionsIn(I), output |-> ExtensionsIn(O)] :
        I \in inputs, O \in SUBSET AllExtensions}

\* a job without parents: no input_files
GenerateRootJob ==
    /\ Len(jobs_files) = 0
    /\ \E r \in JobRecipes({{}, {".txt"}}), fr \in FilesRecipes :
          generate_job(<<>>, r, fr)

\* a job whose parent is the job generated before it: input_files is the
\* file list of the parent
GenerateChildJob ==
    /\ Len(jobs_files) = 1
    /\ \E r \in JobRecipes(SUBSET AllExtensions), fr \in FilesRecipes :
          generate_job(jobs_files[1], r, fr)

(***************************************************************************)
(* The workflows the generator hands to create_benchmark.                  *)
(***************************************************************************)
Acyclic(n, par) ==
    LET RECURSIVE Anc(_, _)
        Anc(t, k) == IF k = 0 THEN {}
                     ELSE par[t] \cup UNION {Anc(p, k - 1) : p \in par[t]}
    IN /\ \A t \in 1..n : t \notin par[t]
       /\ \A t \in 1..n : t \notin Anc(t, n)

ChildrenOf(n, par) == [t \in 1..n |-> {c \in 1..n : t \in par[c]}]

EmptyDir == [f \in {} |-> 0]

InitWorkflow(maxTasks, cats) ==
    /\ num \in 1..maxTasks
    /\ tasks_parents \in [1..num -> SUBSET (1..num)]
    /\ Acyclic(num, tasks_parents)
    /\ category \in [1..num -> cats]
    /\ name = GeneratedNames(num, category)
    /\ tasks_children = ChildrenOf(num, tasks_parents)
    /\ files = [t \in 1..num |-> <<>>]
    /\ args = [t \in 1..num |-> <<>>]
    /\ mode = "none"
    /\ footprint = 0
    /\ disk = EmptyDir
    /\ pc = "idle"
    /\ has_executed = {}
    /\ procs = <<>>
    /\ idx = 0
    /\ waited = 0
    /\ pstate = [t \in 1..num |-> "none"]
    /\ written = [t \in 1..num |-> {}]
    /\ checked = {}
    /\ scan_spawned = {}
    /\ call = DefaultCall(DataNone)
    /\ lock_files = {}
    /\ wrote = {}
    /\ repeated = FALSE
    /\ scratch = 0
    /\ program = [t \in 1..num |-> <<>>]
    /\ NewRecipe

Init == InitWorkflow(MaxTasks, Prefixes)

Next == Create

Spec == Init /\ [][Next]_vars

\* the state of a new instance whose generated workflow has n tasks with
\* the parents par and the categories cat
InitOf(n, par, cat) ==
    /\ num = n
    /\ tasks_parents = par
    /\ category = cat
    /\ name = GeneratedNames(n, cat)
    /\ tasks_children = ChildrenOf(n, par)
    /\ files = [t \in 1..n |-> <<>>]
    /\ args = [t \in 1..n |-> <<>>]
    /\ mode = "none"
    /\ footprint = 0
    /\ disk = EmptyDir
    /\ pc = "idle"
    /\ has_executed = {}
    /\ procs = <<>>
    /\ idx = 0
    /\ waited = 0
    /\ pstate = [t \in 1..n |-> "none"]
    /\ written = [t \in 1..n |-> {}]
    /\ checked = {}
    /\ scan_spawned = {}
    /\ call = DefaultCall(DataNone)
    /\ lock_files = {}
    /\ wrote = {}
    /\ repeated = FALSE
    /\ scratch = 0
    /\ program = [t \in 1..n |-> <<>>]
    /\ NewRecipe

(***************************************************************************)
(* Per-category sizes on a graph of four categories: A -> B, A -> C,       *)
(* B -> D, the tasks in this order.                                        *)
(***************************************************************************)
ExampleParents == <<{}, {1}, {1}, {2}>>
ExampleCategories == <<"a", "b", "c", "d">>

ExampleWorkflow == InitOf(4, ExampleParents, ExampleCategories)

\* the sizes of the consumers' categories, without and with a size for the
\* category of the root
ExampleSizes == [c \in {"b", "c", "d"} |->
                    CASE c = "b" -> 100 [] c = "c" -> 200 [] c = "d" -> 50]
ExampleSizesWithRoot == [c \in {"a", "b", "c", "d"} |->
                            IF c = "a" THEN 10 ELSE ExampleSizes[c]]

ExampleDataArgs == {DataDict(ExampleSizes), DataDict(ExampleSizesWithRoot)}

CreateExample == \E data \in ExampleDataArgs : CreateBenchmark(data)

InitCategories == Init \/ ExampleWorkflow

NextCategories == Create \/ CreateExample

SpecCategories == InitCategories /\ [][NextCategories]_vars

(***************************************************************************)
(* run(json_path, save_dir): the polling executor, and the task processes  *)
(* it spawns.  The data directory (disk) is the directory the readiness    *)
(* check resolves names in and the directory cleanup_sys_files globs.      *)
(***************************************************************************)
\* the manifest of task t as read back from the benchmark JSON
ManifestNames(t, link) ==
    {files[t][k].name : k \in {j \in 1..Len(files[t]) : files[t][j].link = link}}

ReadyIfAnyInput(t) ==
    \/ ManifestNames(t, "input") = {}
    \/ \E f \in ManifestNames(t, "input") : f \in DOMAIN disk

\* ready_to_execute = all([... .exists() for input_file in task["files"]
\*                         if input_file["link"] == "input"])
Ready(t) == \A f \in ManifestNames(t, "input") : f \in DOMAIN disk

NeverLaunched(t) == FALSE

\* if task["name"] in has_executed: continue
Launched(t) == t \in has_executed

\* continue: the for-loop goes on with the next task
AfterSkip(i) == i + 1

RestartScan(i) == 1

\* the end of the loop body: the for-loop goes on with the next task
AfterSpawn(i) == i + 1

\* s ends with suffix
EndsWith(s, suffix) ==
    /\ Len(s) >= Len(suffix)
    /\ SubSeq(s, Len(s) - Len(suffix) + 1, Len(s)) = suffix

\* s holds sub at a position that ends at or before position last
ContainsBefore(s, sub, last) ==
    \E i \in 1..Len(s) : /\ i + Len(sub) - 1 <= last
                         /\ SubSeq(s, i, i + Len(sub) - 1) = sub

\* glob.glob("*input*.txt") and glob.glob("*output.txt"): a leading * does
\* not match a name that starts with a dot
GlobMatches(f) ==
    /\ Len(f) > 0
    /\ Head(f) # "."
    /\ \/ EndsWith(f, ".txt") /\ ContainsBefore(f, "input", Len(f) - 4)
       \/ EndsWith(f, "output.txt")

\* cleanup_sys_files
CleanupSysFiles(d) == [f \in {g \in DOMAIN d : ~GlobMatches(g)} |-> d[f]]

WriteFile(d, f, size) == [g \in DOMAIN d \cup {f} |-> IF g = f THEN size ELSE d[g]]

BeginScan ==
    /\ idx' = 1
    /\ checked' = {}
    /\ scan_spawned' = {}

\* run is entered: the JSON is read, run.txt is opened, and the while-loop
\* is entered (the workflow has at least one task)
RunStart ==
    /\ pc = "created"
    /\ mode \in {"int", "dict"}
    /\ pc' = "for"
    /\ disk' = WriteFile(disk, "run.txt", 0)
    /\ has_executed' = {}
    /\ procs' = <<>>
    /\ BeginScan
    /\ UNCHANGED <<wfvars, jobvars, callvars, spawnvars, files, args, mode, footprint, waited, pstate, written>>

\* for-loop body: the task was launched by an earlier scan
SkipExecuted ==
    /\ pc = "for" /\ idx <= num
    /\ Launched(idx)
    /\ idx' = AfterSkip(idx)
    /\ UNCHANGED <<wfvars, jobvars, callvars, spawnvars, files, args, mode, footprint, disk, pc, has_executed,
                   procs, waited, pstate, written, checked, scan_spawned>>

\* for-loop body: some input file of the task does not exist
SkipNotReady ==
    /\ pc = "for" /\ idx <= num
    /\ ~Launched(idx)
    /\ ~Ready(idx)
    /\ idx' = AfterSkip(idx)
    /\ checked' = checked \cup {idx}
    /\ UNCHANGED <<wfvars, jobvars, callvars, spawnvars, files, args, mode, footprint, disk, pc, has_executed,
                   procs, waited, pstate, written, scan_spawned>>

\* this_dir: the directory that holds bench.py and wfbench.py
ThisDir == "/wfbench"

\* this_dir.joinpath(file_name)
Resolved(f) == ThisDir \o "/" \o f

\* task.program = f"{this_dir.joinpath('wfbench.py')}"
Executable == Resolved("wfbench.py")

\* assigning_correct_files(task)
assigning_correct_files(t) ==
    LET ks == SeqOfSet({k \in 1..Len(files[t]) : files[t][k].link = "input"})
    IN [j \in 1..Len(ks) |-> files[t][ks[j]].name]

\* "--out" in arguments: arguments is a list, the test is for an element
\* equal to "--out"
HasOutElement(arguments) == \E k \in 1..Len(arguments) : arguments[k] = "--out"

\* program, lines 386-394
Program(t) ==
    IF HasOutElement(args[t])
    THEN <<"time", "python", Executable>> \o args[t] \o assigning_correct_files(t)
    ELSE <<"time", "python", Executable>> \o args[t]

\* for-loop body: the task is ready; its scratch directory is made and its
\* process is spawned
Spawn ==
    /\ pc = "for" /\ idx <= num
    /\ ~Launched(idx)
    /\ Ready(idx)
    /\ has_executed' = has_executed \cup {idx}
    /\ scratch' = scratch + 1
    /\ program' = [program EXCEPT ![idx] = Program(idx)]
    /\ procs' = Append(procs, idx)
    /\ pstate' = [pstate EXCEPT ![idx] = "running"]
    /\ written' = [written EXCEPT ![idx] = {}]
    /\ scan_spawned' = scan_spawned \cup {idx}
    /\ idx' = AfterSpawn(idx)
    /\ UNCHANGED <<wfvars, jobvars, callvars, files, args, mode, footprint, disk, pc, waited,
                   checked>>

\* for-loop body: the task is ready, but folder.mkdir or subprocess.Popen
\* raises (OSError); the except branch cleans up and raises
SpawnFails ==
    /\ pc = "for" /\ idx <= num
    /\ ~Launched(idx)
    /\ Ready(idx)
    /\ has_executed' = has_executed \cup {idx}
    /\ \/ scratch' = scratch          \* folder.mkdir raised
       \/ scratch' = scratch + 1      \* Popen raised
    /\ disk' = CleanupSysFiles(disk)
    /\ pc' = "raised"
    /\ checked' = {}
    /\ scan_spawned' = {}
    /\ UNCHANGED <<wfvars, jobvars, callvars, files, args, mode, footprint, procs, idx, waited,
                   pstate, written, program>>

\* the for-loop is over: time.sleep(1), then the while-test
EndScan ==
    /\ pc = "for" /\ idx = num + 1
    /\ IF Cardinality(has_executed) < num
       THEN BeginScan /\ UNCHANGED <<pc, waited>>
       ELSE /\ pc' = "wait"
            /\ waited' = 0
            /\ checked' = {}
            /\ scan_spawned' = {}
            /\ UNCHANGED idx
    /\ UNCHANGED <<wfvars, jobvars, callvars, spawnvars, files, args, mode, footprint, disk, has_executed,
                   procs, pstate, written>>

\* for proc in procs: proc.wait() returns once the process has ended; its
\* return value is dropped
WaitProc ==
    /\ pc = "wait" /\ waited < Len(procs)
    /\ pstate[procs[waited + 1]] \in {"exited", "failed"}
    /\ waited' = waited + 1
    /\ UNCHANGED <<wfvars, jobvars, callvars, spawnvars, files, args, mode, footprint, disk, pc, has_executed,
                   procs, idx, pstate, written, checked, scan_spawned>>

\* all processes were waited for: cleanup_sys_files(), run returns
Finish ==
    /\ pc = "wait" /\ waited = Len(procs)
    /\ disk' = CleanupSysFiles(disk)
    /\ pc' = "returned"
    /\ UNCHANGED <<wfvars, jobvars, callvars, spawnvars, files, args, mode, footprint, has_executed, procs, idx,
                   waited, pstate, written, checked, scan_spawned>>

\* the size a task's process is told to give output file f ("--out")
OutSize(t, f) ==
    LET k == CHOOSE k \in 1..Len(files[t]) :
                 files[t][k].link = "output" /\ files[t][k].name = f
    IN files[t][k].size

\* a running task process writes one of its output files
ProcWrite(t) ==
    /\ pstate[t] = "running"
    /\ \E f \in ManifestNames(t, "output") \ written[t] :
          /\ disk' = WriteFile(disk, f, OutSize(t, f))
          /\ written' = [written EXCEPT ![t] = @ \cup {f}]
    /\ UNCHANGED <<wfvars, jobvars, callvars, spawnvars, files, args, mode, footprint, pc, has_executed, procs,
                   idx, waited, pstate, checked, scan_spawned>>

\* a task process that has written its output files exits with status 0
ProcExit(t) ==
    /\ pstate[t] = "running"
    /\ written[t] = ManifestNames(t, "output")
    /\ pstate' = [pstate EXCEPT ![t] = "exited"]
    /\ UNCHANGED <<wfvars, jobvars, callvars, spawnvars, files, args, mode, footprint, disk, pc, has_executed,
                   procs, idx, waited, written, checked, scan_spawned>>

\* a task process ends with a failure status, at any point of its work
ProcFail(t) ==
    /\ pstate[t] = "running"
    /\ pstate' = [pstate EXCEPT ![t] = "failed"]
    /\ UNCHANGED <<wfvars, jobvars, callvars, spawnvars, files, args, mode, footprint, disk, pc, has_executed,
                   procs, idx, waited, written, checked, scan_spawned>>

ProcessWrites == \E t \in Tasks : ProcWrite(t)
ProcessExits == \E t \in Tasks : ProcExit(t)
ProcessFails == \E t \in Tasks : ProcFail(t)

\* the data arguments of the benchmarks that are run: one of each mode
RunDataArgs == {DataInt(1), DataDict([c \in Prefixes |-> 50])}

CreateForRun == \E data \in RunDataArgs : CreateBenchmark(data)

\* the workflows that are run
MaxRunTasks == 3
RunPrefixes == {"a"}

InitRun == InitWorkflow(MaxRunTasks, RunPrefixes)

Executor == RunStart \/ SkipExecuted \/ SkipNotReady \/ Spawn \/ EndScan
               \/ WaitProc \/ Finish

NextRun == CreateForRun \/ Executor \/ SpawnFails
              \/ ProcessWrites \/ ProcessExits \/ ProcessFails

SpecRun == InitRun /\ [][NextRun]_vars

\* the executions in which no spawn raises and every task process writes
\* its output files and exits; the coordinator and the processes keep
\* running
NextLive == CreateForRun \/ Executor \/ ProcessWrites \/ ProcessExits

SpecLive == InitRun /\ [][NextLive]_vars
               /\ WF_vars(CreateForRun \/ Executor)
               /\ WF_vars(ProcessWrites \/ ProcessExits)

(***************************************************************************)
(* create_benchmark with every parameter, then run.                        *)
(***************************************************************************)
MaxParamTasks == 2

ParamPercentCpus == {Float(DefaultPercentCpu), DataDict([c \in {"a"} |-> 5])}
ParamCpuWorks == {DataNone, DataInt(100), DataDict([c \in Prefixes |-> 100])}
ParamGpuWorks == {DataNone, DataInt(5), DataDict([c \in {"a"} |-> 5])}
ParamDataArgs == {DataNone, DataInt(1), DataDict([c \in Prefixes |-> 50]),
                  DataDict([c \in {"a"} |-> 50])}
ParamFolders == {DataNone, Folder("/locks")}

ParamCalls ==
    {Call(p, c, g, d, l, TRUE) :
        p \in ParamPercentCpus, c \in ParamCpuWorks, g \in ParamGpuWorks,
        d \in ParamDataArgs, l \in ParamFolders}

CreateWithParams ==
    /\ pc = "idle"
    /\ \E c \in ParamCalls, env \in LockOutcomes : create_benchmark(c, env)

InitParams == InitWorkflow(MaxParamTasks, Prefixes)

NextParams == CreateWithParams \/ Executor \/ SpawnFails
                 \/ ProcessWrites \/ ProcessExits \/ ProcessFails

SpecParams == InitParams /\ [][NextParams]_vars

(***************************************************************************)
(* create_benchmark called again and again on one instance and one         *)
(* save_dir.  With regenerate=False the workflow of the instance is kept;  *)
(* with regenerate=True lines 106-111 build a new one before the call goes *)
(* on as on a new instance.                                                *)
(***************************************************************************)
MaxRepeatTasks == 2

RepeatCalls(regenerates) ==
    {Call(Float(DefaultPercentCpu), DataInt(100), DataNone, d, DataNone, r) :
        d \in RunDataArgs, r \in regenerates}

Called == {"created", "config_error", "unbound_error"}

\* the first call on an instance: self.workflow is None
CreateFirst ==
    /\ pc = "idle"
    /\ \E c \in RepeatCalls(BOOLEAN) : create_benchmark(c, "ok")

\* a later call with regenerate=False
CreateAgain ==
    /\ pc \in Called
    /\ \E c \in RepeatCalls({FALSE}) : create_benchmark(c, "ok")

\* a later call with regenerate=True, lines 106-111: generator.build_workflow()
\* gives a workflow of the same number of tasks, named by a new recipe
Regenerate ==
    /\ pc \in Called
    /\ num' = num
    /\ tasks_parents' \in [1..num -> SUBSET (1..num)]
    /\ Acyclic(num, tasks_parents')
    /\ category' \in [1..num -> RunPrefixes]
    /\ name' = GeneratedNames(num, category')
    /\ tasks_children' = ChildrenOf(num, tasks_parents')
    /\ files' = [t \in 1..num |-> <<>>]
    /\ args' = [t \in 1..num |-> <<>>]
    /\ mode' = "none"
    /\ footprint' = 0
    /\ wrote' = {}
    /\ repeated' = FALSE
    /\ pc' = "generated"
    /\ UNCHANGED <<disk, call, lock_files, runvars, jobvars>>

\* a later call with regenerate=True, from line 112 on
CreateRegenerated ==
    /\ pc = "generated"
    /\ \E c \in RepeatCalls({TRUE}) : create_benchmark(c, "ok")

InitRepeat == InitWorkflow(MaxRepeatTasks, RunPrefixes)

NextRepeat == CreateFirst \/ CreateAgain \/ Regenerate \/ CreateRegenerated

SpecRepeat == InitRepeat /\ [][NextRepeat]_vars

(***************************************************************************)
(* The generation of a job and of a child of it.                           *)
(***************************************************************************)
InitJobs == InitOf(1, <<{}>>, <<"a">>)

NextJobs == GenerateRootJob \/ GenerateChildJob

SpecJobs == InitJobs /\ [][NextJobs]_vars

(***************************************************************************)
(* Views of the file manifests.                                            *)
(***************************************************************************)
\* the positions <<task, index>> of the records with the given link
Records(link) ==
    UNION {{<<t, k>> : k \in {j \in 1..Len(files[t]) : files[t][j].link = link}}
              : t \in Tasks}

InputNames(t) == {files[tk[1]][tk[2]].name : tk \in {r \in Records("input") : r[1] = t}}
OutputNames(t) == {files[tk[1]][tk[2]].name : tk \in {r \in Records("output") : r[1] = t}}

AllRecords == Records("input") \cup Records("output")

\* the distinct files of the graph: name and size
DistinctFiles == {<<files[tk[1]][tk[2]].name, files[tk[1]][tk[2]].size>> : tk \in AllRecords}

RECURSIVE SumSizes(_)
SumSizes(S) == IF S = {} THEN 0
               ELSE LET x == CHOOSE x \in S : TRUE IN x[2] + SumSizes(S \ {x})

Abs(x) == IF x < 0 THEN -x ELSE x

Assembled == pc = "created" /\ mode \in {"int", "dict"}

(***************************************************************************)
(* Claims about create_benchmark.                                          *)
(***************************************************************************)
\* C1: after create_benchmark (either data mode), every INPUT File name of a
\* task that has a parent is the name of an OUTPUT File declared by exactly
\* one ancestor of that task.
C1_DependencyContract ==
    Assembled =>
        \A t \in Tasks : tasks_parents[t] # {} =>
            \A f \in InputNames(t) :
                Cardinality({a \in Ancestors(t) : f \in OutputNames(a)}) = 1

\* C8: after create_benchmark (either data mode), no two OUTPUT File records
\* of the graph, in the same task or in different tasks, have the same name.
C8_OutputNamesUnique ==
    Assembled =>
        \A r1, r2 \in Records("output") :
            r1 # r2 => files[r1[1]][r1[2]].name # files[r2[1]][r2[2]].name

\* C8 witness: a per-category graph in which one task has two OUTPUT records
\* and categories that contain the separator are in use.
C8_Witness ==
    /\ Assembled /\ mode = "dict"
    /\ \E t \in Tasks : Cardinality(tasks_children[t]) = 2 /\ Len(files[t]) >= 3
    /\ \E t, u \in Tasks : category[t] = "a" /\ category[u] = "a_a"

\* C9: uniform-footprint mode: every File record has size
\* round(D * 10^6 / totalFiles), totalFiles = 2 * roots + non-roots; every
\* task has one output, a root one input, a non-root one input per parent;
\* the graph has totalFiles distinct file names.
C9_UniformSizes ==
    (Assembled /\ mode = "int") =>
        LET totalFiles == 2 * Cardinality(Roots) + Cardinality(Tasks \ Roots)
            n == footprint * MBtoB
            nearest(sz) == /\ 2 * Abs(sz * totalFiles - n) <= totalFiles
                           /\ 2 * Abs(sz * totalFiles - n) = totalFiles => sz % 2 = 0
        IN /\ \A tk \in AllRecords : nearest(files[tk[1]][tk[2]].size)
           /\ \A t \in Tasks :
                /\ Cardinality({tk \in Records("output") : tk[1] = t}) = 1
                /\ Cardinality({tk \in Records("input") : tk[1] = t}) =
                      IF t \in Roots THEN 1 ELSE Cardinality(tasks_parents[t])
           /\ Cardinality({d[1] : d \in DistinctFiles}) = totalFiles

\* C9 witness: a graph with a root and a non-root task, and a footprint that
\* the number of files does not divide.
C9_Witness ==
    /\ Assembled /\ mode = "int" /\ footprint > 0
    /\ \E t \in Tasks : tasks_parents[t] # {}
    /\ (footprint * MBtoB) % total_num_files # 0

\* C10 as stated: uniform-footprint mode: the sizes of the distinct files of
\* the graph sum to within one byte of D * 10^6.
C10_WithinOneByte ==
    (Assembled /\ mode = "int") =>
        Abs(SumSizes(DistinctFiles) - footprint * MBtoB) <= 1

\* C10 as amended: uniform-footprint mode: the sizes of the distinct files of
\* the graph sum to within half a byte per file of D * 10^6, that is within
\* totalFiles / 2 bytes.
C10_WithinHalfBytePerFile ==
    (Assembled /\ mode = "int") =>
        2 * Abs(SumSizes(DistinctFiles) - footprint * MBtoB)
            <= 2 * Cardinality(Roots) + Cardinality(Tasks \ Roots)

\* C10 witness: a graph whose distinct files sum to more than one byte away
\* from the footprint.
C10_Witness ==
    /\ Assembled /\ mode = "int"
    /\ Abs(SumSizes(DistinctFiles) - footprint * MBtoB) > 1

\* the OUTPUT records of task t that are named n
OutputsNamed(t, n) ==
    {k \in 1..Len(files[t]) : files[t][k].link = "output" /\ files[t][k].name = n}

IsExample ==
    /\ num = 4
    /\ tasks_parents = ExampleParents
    /\ category = ExampleCategories

\* C11: per-category mode: for every task T and every child C of T, T has
\* exactly one OUTPUT File for that edge, named <T>_<C>_output.txt and sized
\* data[category(C)]; a task with no children has exactly one OUTPUT File,
\* named <T>_<T>_output.txt and sized data[category(T)].  On the graph
\* A -> B, A -> C, B -> D with the sizes B: 100, C: 200, D: 50, the outputs
\* of A are 100 (to B) and 200 (to C), that of B is 50, and D has one of 50.
C11_OutputsSizedByConsumer ==
    /\ (pc = "created" /\ mode = "dict") =>
          \A t \in Tasks :
             LET edge(c) == OutputsNamed(t, name[t] \o "_" \o name[c] \o "_output.txt")
             IN IF tasks_children[t] = {}
                THEN /\ Cardinality(Records("output") \cap ({t} \X (1..Len(files[t])))) = 1
                     /\ Cardinality(edge(t)) = 1
                     /\ \A k \in edge(t) : files[t][k].size = call.data.value[category[t]]
                ELSE \A c \in tasks_children[t] :
                        /\ Cardinality(edge(c)) = 1
                        /\ \A k \in edge(c) :
                              files[t][k].size = call.data.value[category[c]]
    /\ (IsExample /\ mode = "dict" /\ pc \in {"created", "config_error"}
           /\ \A c \in {"b", "c", "d"} :
                 c \in DOMAIN call.data.value /\ call.data.value[c] = ExampleSizes[c]) =>
          LET out(t) == [k \in 1..Len(files[t]) |-> <<files[t][k].name, files[t][k].size>>]
              outputs(t) == {k \in 1..Len(files[t]) : files[t][k].link = "output"}
          IN /\ {out(1)[k] : k \in outputs(1)} =
                   {<<"a_00000001_b_00000002_output.txt", 100>>,
                    <<"a_00000001_c_00000003_output.txt", 200>>}
             /\ {out(2)[k] : k \in outputs(2)} =
                   {<<"b_00000002_d_00000004_output.txt", 50>>}
             /\ {out(4)[k] : k \in outputs(4)} =
                   {<<"d_00000004_d_00000004_output.txt", 50>>}
             /\ Cardinality(outputs(1)) = 2
             /\ Cardinality(outputs(2)) = 1
             /\ Cardinality(outputs(4)) = 1

\* C11 witness: the benchmark of the example graph has been assembled with
\* the example sizes.
C11_Witness ==
    /\ IsExample /\ pc = "created" /\ mode = "dict"
    /\ call.data = DataDict(ExampleSizesWithRoot)
    /\ Len(files[1]) = 3

(***************************************************************************)
(* Claims about run.                                                       *)
(***************************************************************************)
RunEnded == pc \in {"returned", "raised"}

\* C2: when run is given a graph produced by create_benchmark (either data
\* mode), the root input files exist, no spawn raises and every spawned
\* process writes its output files, every task is eventually launched and
\* the polling loop ends.
C2_ExecutorLiveness ==
    (pc = "for") ~> (has_executed = Tasks /\ pc \in {"wait", "returned"})

\* C3: a task's process is spawned only if every input file of its manifest
\* exists at the readiness check of the step that launches it.
C3_SpawnOnlyWhenReady ==
    [][\A t \in Tasks :
          (t \notin has_executed /\ t \in has_executed') =>
              \A f \in InputNames(t) : f \in DOMAIN disk]_vars

\* C3 witness: a task with a parent has been spawned, in a scan later than
\* the one that spawned the parent.
C3_Witness ==
    \E t \in Tasks : /\ tasks_parents[t] # {}
                     /\ pstate[t] = "running"
                     /\ t \in scan_spawned
                     /\ tasks_parents[t] \cap scan_spawned = {}

\* C4: each task is spawned at most once: the list of spawned processes
\* holds no task twice, and never more processes than there are tasks.
C4_SpawnedAtMostOnce ==
    /\ Len(procs) <= num
    /\ \A i, j \in 1..Len(procs) : i # j => procs[i] # procs[j]

\* C4 witness: a later scan passes over a task launched by an earlier scan,
\* after a second task has been spawned.
C4_Witness ==
    /\ pc = "for" /\ Len(procs) >= 2
    /\ \E t \in Tasks : t < idx /\ t \in has_executed /\ t \notin scan_spawned

\* C5 as stated: a consumer is never spawned in the scan in which one of
\* its producers was spawned.
C5_NeverSameScan ==
    \A c \in scan_spawned : tasks_parents[c] \cap scan_spawned = {}

\* C5 as amended: a task that a scan has found not ready is not spawned in
\* that scan, whatever is written afterwards; it is spawned by a later scan.
C5_NotReadyWaitsForNextScan == checked \cap scan_spawned = {}

\* C5 witness: an input file of a task is written after the scan found the
\* task not ready, while the scan is still going on.
C5_Witness ==
    /\ pc = "for" /\ idx <= num
    /\ \E t \in checked : Ready(t) /\ t \notin has_executed

\* C6: after run ends, by returning or by raising, no file that matches the
\* generated input/output naming patterns is in the working directory.
C6_CleanAfterRun ==
    RunEnded => \A f \in DOMAIN disk : ~GlobMatches(f)

\* C7: if a task process spawned by run fails, run does not return normally.
C7_FailureSurfaces ==
    pc = "returned" => \A t \in Tasks : pstate[t] # "failed"

\* the part of an argument before its first space: the option it sets
RECURSIVE OptionOf(_)
OptionOf(s) == IF s = "" \/ Head(s) = " " THEN "" ELSE SubSeq(s, 1, 1) \o OptionOf(Tail(s))

\* the options a command can carry, in the order of the invocation contract
OptionOrder == <<"--percent-cpu", "--cpu-work", "--path-lock", "--path-cores",
                 "--gpu-work", "--out">>
PlaceOf(o) == CHOOSE i \in 0..Len(OptionOrder) :
                 IF \E j \in 1..Len(OptionOrder) : OptionOrder[j] = o
                 THEN i > 0 /\ OptionOrder[i] = o ELSE i = 0

\* C12: the command of every task spawned by run on a graph made by
\* create_benchmark with a data argument is, after the executable: the task
\* name; then the options, each at most once and in the order --percent-cpu,
\* --cpu-work, --path-lock, --path-cores, --gpu-work, --out, the last always
\* there; then the resolved path of each declared input file, in manifest
\* order, each exactly once.
C12_CommandLayout ==
    \A t \in Tasks : program[t] # <<>> =>
        LET cmd == program[t]
            ins == assigning_correct_files(t)
            last == Len(cmd) - Len(ins)
        IN /\ Len(cmd) >= 5 + Len(ins)
           /\ SubSeq(cmd, 1, 3) = <<"time", "python", Executable>>
           /\ cmd[4] = name[t]
           /\ \A k \in 5..last : PlaceOf(OptionOf(cmd[k])) > 0
           /\ \A k \in 5..(last - 1) :
                 PlaceOf(OptionOf(cmd[k])) < PlaceOf(OptionOf(cmd[k + 1]))
           /\ OptionOf(cmd[last]) = "--out"
           /\ SubSeq(cmd, last + 1, Len(cmd)) = [j \in 1..Len(ins) |-> Resolved(ins[j])]

\* C13: when create_benchmark is given a per-category data mapping that
\* lacks the category of a task, the call does not complete, and when it has
\* failed with the configuration error the call has written no file: no
\* root input file, no benchmark JSON, no lock or cores file.
C13_FailsBeforeAnyWrite ==
    (pc # "idle" /\ call.data.kind = "dict"
        /\ \E t \in Tasks : category[t] \notin DOMAIN call.data.value) =>
       /\ pc \in {"config_error", "unbound_error"}
       /\ pc = "config_error" => wrote = {} /\ disk = EmptyDir /\ lock_files = {}

\* every per-category parameter of the call has an entry for every category
\* of the graph that create_benchmark looks up
LookupsSucceed ==
    /\ \A t \in Tasks :
          /\ Truthy(call.cpu_work) =>
                ~LookupFails(call.percent_cpu, t) /\ ~LookupFails(call.cpu_work, t)
          /\ Truthy(call.gpu_work) => ~LookupFails(call.gpu_work, t)
    /\ call.data.kind = "dict" =>
          \A t \in Tasks : category[t] \in DOMAIN call.data.value

\* C14: when the lock-file directory or the lock and cores files in it
\* cannot be created, create_benchmark still runs to completion and returns
\* the JSON path, whatever the other parameters (cpu_work set or not).
C14_LockFailureContinues ==
    (pc # "idle" /\ call.lock_files_folder.kind = "path"
        /\ ~({LockName, CoresName} \subseteq lock_files)
        /\ LookupsSucceed) =>
       /\ pc \notin {"config_error", "unbound_error"}
       /\ JsonName \in DOMAIN disk \/ pc \in {"returned", "raised"}

\* C16: when run returns normally, nothing that run or its task processes
\* created is left but the run log: no file written by a task process and
\* no scratch directory of a task.
C16_FootprintRestored ==
    pc = "returned" =>
       /\ \A t \in Tasks : written[t] \cap DOMAIN disk = {}
       /\ scratch = 0

IsInputFileName(f) == EndsWith(f, "_input.txt")

\* C15: materializing the root input files again in the same directory,
\* also for other sizes, leaves every <task>_input.txt that exists as it is:
\* not opened for writing, not resized, not removed; the files it creates
\* are the missing input files of the roots, and all of them.
C15_ExistingRootInputsKept ==
    [][/\ \A f \in DOMAIN disk :
             IsInputFileName(f) =>
                f \in DOMAIN disk' /\ disk'[f] = disk[f] /\ f \notin wrote'
       /\ \A f \in DOMAIN disk' \ DOMAIN disk :
             IsInputFileName(f) =>
                f \in wrote' /\ \E t \in Tasks :
                                   tasks_parents[t] = {} /\ f = name[t] \o "_input.txt"
       /\ pc' = "created" /\ mode' \in {"int", "dict"} =>
             \A t \in Tasks : tasks_parents'[t] = {} =>
                (name'[t] \o "_input.txt") \in DOMAIN disk'
      ]_vars

\* the size the manifest of root t gives its input file
ManifestInputSize(t) ==
    LET k == CHOOSE k \in 1..Len(files[t]) : files[t][k].link = "input"
    IN files[t][k].size

\* C15 witness: a later call has found the input file of one root in place,
\* of a size other than the one it would have written, and has created the
\* missing input file of another root.
C15_Witness ==
    /\ pc = "created" /\ mode \in {"int", "dict"}
    /\ \E t, u \in Roots :
          /\ InputName(t) \in DOMAIN disk /\ InputName(t) \notin wrote
          /\ disk[InputName(t)] # ManifestInputSize(t)
          /\ InputName(u) \in wrote

\* C18: a call of create_benchmark with regenerate=False and the parameters
\* of the completed call before it leaves every task's file manifest and
\* argument list, and the parents and children of the graph, as they were.
C18_RepeatedCallKeepsManifests ==
    [][(pc = "created" /\ pc' = "created" /\ call' = call /\ ~call'.regenerate) =>
          /\ files' = files
          /\ args' = args
          /\ tasks_parents' = tasks_parents
          /\ tasks_children' = tasks_children
          /\ name' = name
      ]_vars

\* C18 witness: the same call has been made again, on a graph with a
\* dependency, with cpu_work set and a data argument.
C18_Witness ==
    /\ pc = "created" /\ repeated /\ mode \in {"int", "dict"}
    /\ Truthy(call.cpu_work) /\ ~call.regenerate
    /\ \E t \in Tasks : tasks_parents[t] # {} /\ Len(files[t]) >= 2 /\ Len(args[t]) >= 5

\* the name of a file synthesized for the recipe extension e
IsFreshNameFor(n, e) == Len(n) = UuidWidth + Len(e) /\ EndsWith(n, e)

\* C17: a job that has from its parent's outputs an input file of extension
\* E gets no freshly synthesized INPUT file of extension E, whatever the
\* recipe and files_recipe; a fresh file of a link direction is synthesized
\* only for an extension of the recipe's entry for that direction that no
\* file of that direction already in the job's list carries.
C17_NoFreshFileOfInheritedExtension ==
    Len(jobs_files) = 2 =>
       LET m == jobs_files[2]
           n == Len(LinkedInputs(jobs_files[1]))
           fresh(link) == {k \in (n + 1)..Len(m) : m[k].link = link}
           keys(link) == IF link = "input" THEN job_calls[2].recipe.input
                         ELSE job_calls[2].recipe.output
       IN /\ \A k \in 1..n : m[k].link = "input"
          /\ \A e \in AllExtensions :
                (\E k \in 1..n : EndsWith(m[k].name, e)) =>
                   ~ \E k \in fresh("input") : IsFreshNameFor(m[k].name, e)
          /\ \A link \in {"input", "output"} : \A k \in fresh(link) :
                \E i \in 1..Len(keys(link)) : IsFreshNameFor(m[k].name, keys(link)[i])

====
